---- MODULE Spec2Model ----
(***************************************************************************)
(* A model of src/src/mauve/compute_mauve.py: the KMeans class (fit,       *)
(* fit_once, group_points, update_centers), the tail of cluster_feats that *)
(* turns the clustering into two histograms, the configuration handling of *)
(* compute_mauve / cluster_feats, and the score aggregation.               *)
(*                                                                         *)
(* Numbers.  The clustering works on float32 rows.  The model takes rows   *)
(* of dimension hs = 1 and represents a float by an integer in fixed point *)
(* with Unit = 1.0, so that one unit is the relative tolerance of          *)
(* torch.isclose (1e-5).  NaN and +inf are two sentinels; every arithmetic *)
(* helper propagates NaN the way IEEE arithmetic does.                     *)
(***************************************************************************)
EXTENDS Integers, Sequences, FiniteSets, TLC

\* ------------------------------------------------------------------ bounds
MaxPoints == 3      \* rows of the pooled matrix: 2..MaxPoints
MaxClusters == 3    \* requested cluster count: 0..MaxClusters
MaxInit == 2        \* n_init (kmeans_num_redo): 0..MaxInit
MaxIter == 2        \* max_iter (kmeans_max_iter): 1..MaxIter
MaxRows == 2        \* rows of p_features and of q_features: 1..MaxRows
MaxAutoRows == 30   \* the same where only num_buckets="auto" is resolved
MaxCapacity == 8    \* capacity of a group_points call: 1..MaxCapacity
MaxBins == 2        \* length of p_hist and q_hist: 1..MaxBins
MaxCount == 2       \* rows in one bin of a histogram: 0..MaxCount
MaxDisc == 2        \* divergence_curve_discretization_size: 1..MaxDisc

\* --------------------------------------------------------- float encoding
Unit == 100000
NaN == -1000000007
PosInf == 1000000007
MinLossInit == 2000000000   \* min_loss = 1e10: above every loss of the model
DefaultCapacity == 2000000000 \* capacity=int(1e10): above N*N*K of the model
MinVariation == 100         \* min_variation = 1e-3, in units
RtolInv == 100000           \* 1 / rtol of torch.isclose (rtol = 1e-5)
None == <<>>

\* Op(v), with v evaluated once
With(v, Op(_)) == CHOOSE y \in {Op(x) : x \in {v}} : TRUE

Abs(x) == IF x < 0 THEN -x ELSE x
Sign(x) == IF x < 0 THEN -1 ELSE IF x > 0 THEN 1 ELSE 0

\* np.isnan
IsNaN(x) == x = NaN

\* np.isfinite: neither NaN nor an infinity
IsFinite(x) == x # NaN /\ x # PosInf /\ x # -PosInf

\* exact floor of |a|*|b| / Unit without leaving 32-bit integers
MulAbs(x, y) ==
    LET hi == (x \div 1000) * y
    IN  (hi \div 100) + (((hi % 100) * 1000 + (x % 1000) * y) \div Unit)

\* float product a*b (fixed point), NaN-propagating
Mul(a, b) ==
    With(<<a, b>>, LAMBDA v :
        IF IsNaN(v[1]) \/ IsNaN(v[2]) THEN NaN
        ELSE Sign(v[1]) * Sign(v[2]) * MulAbs(Abs(v[1]), Abs(v[2])))

\* float sum, NaN-propagating
Add(a, b) == IF IsNaN(a) \/ IsNaN(b) THEN NaN ELSE a + b

\* float difference, NaN-propagating
Sub(a, b) == IF IsNaN(a) \/ IsNaN(b) THEN NaN ELSE a - b

\* torch.nn.functional.normalize(x, dim=-1) on a row of one column:
\* x / max(|x|, eps).  A raw value is held in units of eps / Unit, so
\* |x| >= eps is |x| >= Unit; inf / inf and NaN give NaN.
Normalize(x) ==
    IF x = NaN \/ x = PosInf \/ x = -PosInf THEN NaN
    ELSE IF Abs(x) >= Unit THEN Sign(x) * Unit
    ELSE x

NormalizeAll(enc) == [i \in 1..Len(enc) |-> Normalize(enc[i])]

\* torch.isclose(a, b): |a - b| <= atol + rtol * |b| (atol = 1e-8 is below
\* the resolution of the model), False on NaN
IsClose(a, b) ==
    /\ ~IsNaN(a)
    /\ ~IsNaN(b)
    /\ Abs(a - b) <= Abs(b) \div RtolInv

\* ------------------------------------------------------- sequence helpers
RECURSIVE SortSet(_)
SortSet(S) ==
    IF S = {} THEN <<>>
    ELSE LET m == CHOOSE x \in S : \A y \in S : x <= y
         IN  <<m>> \o SortSet(S \ {m})

RECURSIVE Repeat(_, _)
Repeat(x, n) == IF n = 0 THEN <<>> ELSE <<x>> \o Repeat(x, n - 1)

RECURSIVE SumSeq(_)
SumSeq(s) ==
    IF Len(s) = 0 THEN 0
    ELSE IF Len(s) = 1 THEN s[1]
    ELSE LET h == Len(s) \div 2
         IN  Add(SumSeq(SubSeq(s, 1, h)), SumSeq(SubSeq(s, h + 1, Len(s))))

Range(s) == {s[i] : i \in 1..Len(s)}

Perms(n) == {f \in [1..n -> 1..n] : \A i, j \in 1..n : f[i] = f[j] => i = j}

\* ------------------------------------------------------- KMeans.fit_once
\* torch.unique(encodings, dim=0): the distinct rows in ascending order; a
\* NaN row equals no row, itself included, so every NaN row is kept
Unique(enc) ==
    With(enc \o <<>>, LAMBDA e :
        SortSet({e[i] : i \in {j \in 1..Len(e) : ~IsNaN(e[j])}})
            \o Repeat(NaN, Cardinality({j \in 1..Len(e) : IsNaN(e[j])})))

\* torch.mm(centers, new_center.T).max(): NaN if any product is NaN
MaxSim(centers, new) ==
    LET sims == {Mul(centers[k], new) : k \in 1..Len(centers)}
    IN  IF NaN \in sims THEN NaN
        ELSE CHOOSE m \in sims : \A y \in sims : y <= m

\* the seeding loop of fit_once over the shuffled unique rows
RECURSIVE SeedFrom(_, _, _, _, _)
SeedFrom(unique, perm, i, centers, k) ==
    IF i > Len(unique) THEN centers
    ELSE IF i = 1 THEN SeedFrom(unique, perm, 2, <<unique[perm[1]]>>, k)
    ELSE LET new == unique[perm[i]]
         IN  IF ~IsClose(MaxSim(centers, new), Unit)
             THEN IF Len(centers) + 1 = k
                  THEN Append(centers, new)
                  ELSE SeedFrom(unique, perm, i + 1, Append(centers, new), k)
             ELSE SeedFrom(unique, perm, i + 1, centers, k)

\* -------------------------------------------------- KMeans.group_points
\* 1 - cos of one row against every center
Distances(x, centers) == [k \in 1..Len(centers) |-> Sub(Unit, Mul(x, centers[k]))]

\* Tensor.argmin(dim=-1): the first NaN if there is one, else the first
\* minimum; labels count from 0
ArgMin(d) ==
    IF NaN \in Range(d)
    THEN (CHOOSE k \in 1..Len(d) : IsNaN(d[k]) /\ \A j \in 1..(k - 1) : ~IsNaN(d[j])) - 1
    ELSE (CHOOSE k \in 1..Len(d) :
             /\ \A j \in 1..Len(d) : d[k] <= d[j]
             /\ \A j \in 1..(k - 1) : d[j] > d[k]) - 1

\* Tensor.min(dim=-1).values: NaN if there is one
MinVal(d) ==
    IF NaN \in Range(d) THEN NaN
    ELSE CHOOSE m \in Range(d) : \A y \in Range(d) : m <= y

Min2(a, b) == IF a < b THEN a ELSE b

\* the label and the distance of one row: argmin and min of its distances
Nearest(x, centers) ==
    With(Distances(x, centers) \o <<>>, LAMBDA d :
        [label |-> ArgMin(d), dist |-> MinVal(d)])

\* the chunk loop: chunk i holds rows i*split_len .. (i+1)*split_len - 1
RECURSIVE GroupChunks(_, _, _, _, _, _, _)
GroupChunks(centers, enc, split_len, split_num, i, idx, loss) ==
    IF i >= split_num THEN [ok |-> TRUE, group_index |-> idx, loss |-> loss]
    ELSE LET lo == i * split_len + 1
             hi == Min2(Len(enc), (i + 1) * split_len)
         IN  With([j \in 1..(hi - lo + 1) |-> Nearest(enc[lo + j - 1], centers)] \o <<>>,
                  LAMBDA near :
                      GroupChunks(centers, enc, split_len, split_num, i + 1,
                          idx \o [j \in 1..Len(near) |-> near[j].label],
                          Add(loss, SumSeq([j \in 1..Len(near) |-> near[j].dist]))))

\* group_points(centers, encodings, capacity); ok = FALSE is the
\* ZeroDivisionError of encodings.shape[0] / split_len
GroupPoints(centers, enc, capacity) ==
    LET split_len == capacity \div (Len(enc) * Len(centers))
    IN  IF split_len = 0
        THEN [ok |-> FALSE, group_index |-> <<>>, loss |-> 0]
        ELSE GroupChunks(centers, enc, split_len,
                         (Len(enc) + split_len - 1) \div split_len, 0, <<>>, 0)

\* ------------------------------------------------ KMeans.update_centers
\* the new center k: normalize((1e-6 * old + sum of its rows) / (1e-6 + n)).
\* With one column this is the sign of the sum of the rows, and the sign of
\* the old center when that sum is 0 (the stabilizer is all that is left).
NewCenter(k, group_index, enc, old) ==
    With(SumSeq([i \in 1..Len(enc) |->
                    IF group_index[i] = k - 1 THEN enc[i] ELSE 0]),
         LAMBDA s :
             IF IsNaN(s) \/ IsNaN(old[k]) THEN NaN
             ELSE IF s # 0 THEN Sign(s) * Unit
             ELSE Sign(old[k]) * Unit)

\* update_centers(group_index, encodings, old_centers) with self.n_clusters
\* = k: sum_vec has one row per old center, count_vec has k entries, and
\* sum_vec.div_(count_vec.unsqueeze(1)) raises unless the two agree
UpdateCenters(group_index, enc, old, k) ==
    IF Len(old) # k
    THEN [ok |-> FALSE, centers |-> old]
    ELSE [ok |-> TRUE,
          centers |-> [j \in 1..k |-> NewCenter(j, group_index, enc, old)] \o <<>>]

\* ((old_centers - centers) ** 2).sum(dim=-1).max().item()
Movement(old, new) ==
    LET sq == {Mul(Sub(old[k], new[k]), Sub(old[k], new[k])) : k \in 1..Len(old)}
    IN  IF NaN \in sq THEN NaN
        ELSE CHOOSE m \in sq : \A y \in sq : y <= m

\* the stopping test without its NaN case: a variant that would run a
\* restart on after its loss became NaN
StopIterationNoNan(movement, l) == ~IsNaN(movement) /\ movement < MinVariation

\* centers_max_movement < self.min_variation or np.isnan(loss)
StopIteration(movement, l) ==
    (~IsNaN(movement) /\ movement < MinVariation) \/ IsNaN(l)

\* while np.isnan(loss): the attempt is run (again)
RetryNeeded(l) == IsNaN(l)

\* if loss < min_loss
Better(l, m) == ~IsNaN(l) /\ ~IsNaN(m) /\ l < m

\* ------------------------------------------------------------------ state
VARIABLES
    pc,                \* position in cluster_feats / KMeans.fit
    err,               \* the exception raised, "none" if none
    encodings,         \* data1: the reduced pooled matrix, Q's rows first
    len_q,             \* len(q), 0 until cluster_feats splits the labels
    num_clusters,      \* cluster_feats' num_clusters (as requested)
    n_clusters,        \* self.n_clusters (fit_once lowers it)
    n_init,            \* self.n_init
    max_iter,          \* self.max_iter
    init,              \* the restart index of fit's for loop
    loss,              \* fit's loss
    group_index,       \* fit's group_index
    best_group_index,  \* fit's best_group_index
    centers,           \* fit_once's centers
    iter_step,         \* fit_once's iter_step
    clusters,          \* what fit returns
    p_hist, q_hist,    \* what cluster_feats returns: bin counts and their sum
    attempted,         \* history: fit_once has returned in this restart
    retried,           \* history: an attempt was discarded and run again
    ideal,             \* history: the first restart of lowest loss so far
    best_loss,         \* history: the loss that came with best_group_index
    run, first         \* history: which run this is, the first run's result

\* compute_mauve / cluster_feats up to the clustering
VARIABLES
    m_pc,              \* position in compute_mauve / cluster_feats
    m_err,             \* the exception raised, "none" if none
    p_src, q_src,      \* how P, Q are supplied: "features", "text", "none"
    found_torch,       \* FOUND_TORCH and FOUND_TRANSFORMERS
    n_p, n_q,          \* rows of p_features, q_features
    num_buckets,       \* the num_buckets argument, then the resolved count
    pca_max_data,      \* the pca_max_data argument
    explained_var,     \* kmeans_explained_var, in tenths
    work,              \* history: the computation steps done, in order
    pca_rows,          \* history: the rows pca.fit was given, <<>> if none
    m_bins             \* len(p_hist) of the returned result, 0 until then

\* one call of KMeans.group_points
VARIABLES
    gp_pc,             \* "call", "returned" or "raised"
    gp_enc,            \* encodings (normalized rows)
    gp_centers,        \* centers
    gp_capacity,       \* capacity
    gp_out             \* what the call returned

\* the score aggregation of compute_mauve
VARIABLES
    s_pc,              \* "curve", "areas", "frontier" or "returned"
    s_p, s_q,          \* p, q as returned by cluster_feats
    s_m,               \* divergence_curve_discretization_size
    s_c,               \* mauve_scaling_factor
    s_curve,           \* divergence_curve
    s_mauve,           \* mauve_score
    s_fi               \* fi_score

mauveVars == <<m_pc, m_err, p_src, q_src, found_torch, n_p, n_q, num_buckets,
               pca_max_data, explained_var, work, pca_rows, m_bins>>

groupVars == <<gp_pc, gp_enc, gp_centers, gp_capacity, gp_out>>

scoreVars == <<s_pc, s_p, s_q, s_m, s_c, s_curve, s_mauve, s_fi>>

fitVars == <<pc, err, encodings, len_q, num_clusters, n_clusters, n_init,
             max_iter, init, loss, group_index, best_group_index, centers,
             iter_step, clusters, p_hist, q_hist, attempted, retried, ideal,
             best_loss, run, first>>

vars == <<fitVars, mauveVars, groupVars, scoreVars>>

notFit == <<mauveVars, groupVars, scoreVars>>

\* raw rows: -1, the zero row, a value just under eps, 3 (the same direction
\* as 1), +inf
RawValues == {-Unit, 0, Unit - 1, 3 * Unit, PosInf}

RECURSIVE SeqsOf(_, _)
SeqsOf(S, n) ==
    IF n = 0 THEN {<<>>}
    ELSE {Append(s, x) : s \in SeqsOf(S, n - 1), x \in S}

\* the matrices of n rows over S whose rows ascend: one matrix for each
\* multiset of rows
Ascending(S, n) ==
    {s \in SeqsOf(S, n) : \A i \in 1..(n - 1) : s[i] <= s[i + 1]}

NoHist == [counts |-> <<>>, total |-> 0]

NoResult == [clusters |-> <<>>, p_hist |-> NoHist, q_hist |-> NoHist]

StartFit ==
    /\ pc = "fit"
    /\ err = "none"
    /\ \E n \in 2..MaxPoints : encodings \in Ascending(RawValues, n)
    /\ len_q = 0
    /\ num_clusters \in 0..MaxClusters
    /\ n_clusters = num_clusters
    /\ n_init \in 0..MaxInit
    /\ max_iter \in 1..MaxIter
    /\ init = 0
    /\ loss = NaN
    /\ group_index = None
    /\ best_group_index = None
    /\ centers = <<>>
    /\ iter_step = 0
    /\ clusters = <<>>
    /\ p_hist = NoHist
    /\ q_hist = NoHist
    /\ attempted = FALSE
    /\ retried = FALSE
    /\ ideal = None
    /\ best_loss = NaN
    /\ run = 1
    /\ first = NoResult


\* ------------------------------------------------------------ KMeans.fit
\* if self.n_clusters < 1: raise Exception
FitRaise ==
    /\ pc = "fit"
    /\ n_clusters < 1
    /\ pc' = "error"
    /\ err' = "n_clusters"
    /\ UNCHANGED <<encodings, len_q, num_clusters, n_clusters, n_init, max_iter,
                   init, loss, group_index, best_group_index, centers,
                   iter_step, clusters, p_hist, q_hist, attempted, retried,
                   ideal, best_loss, run, first>>
    /\ UNCHANGED notFit

\* if self.n_clusters == 1: clusters = [list(range(encodings.shape[0]))]
FitSingle ==
    /\ pc = "fit"
    /\ n_clusters = 1
    /\ clusters' = <<[i \in 1..Len(encodings) |-> i - 1]>>
    /\ pc' = "fitted"
    /\ UNCHANGED <<err, encodings, len_q, num_clusters, n_clusters, n_init,
                   max_iter, init, loss, group_index, best_group_index,
                   centers, iter_step, p_hist, q_hist, attempted, retried,
                   ideal, best_loss, run, first>>
    /\ UNCHANGED notFit

\* best_group_index, min_loss = None, 1e10, and the for loop is entered
FitBegin ==
    /\ pc = "fit"
    /\ n_clusters > 1
    /\ best_group_index' = None
    /\ init' = 0
    /\ pc' = "for"
    /\ UNCHANGED <<err, encodings, len_q, num_clusters, n_clusters, n_init,
                   max_iter, loss, group_index, centers, iter_step, clusters,
                   p_hist, q_hist, attempted, retried, ideal, best_loss, run,
                   first>>
    /\ UNCHANGED notFit

\* for init in range(self.n_init): loss = np.nan
ForNext ==
    /\ pc = "for"
    /\ init < n_init
    /\ loss' = NaN
    /\ attempted' = FALSE
    /\ pc' = "while"
    /\ UNCHANGED <<err, encodings, len_q, num_clusters, n_clusters, n_init,
                   max_iter, init, group_index, best_group_index, centers,
                   iter_step, clusters, p_hist, q_hist, retried, ideal, best_loss, run, first>>
    /\ UNCHANGED notFit

\* while np.isnan(loss): fit_once is called; it normalizes the rows, lowers
\* self.n_clusters to the number of unique rows and seeds the centers from a
\* random permutation of the unique rows (torch.randperm, unseeded)
FitOnceSeed ==
    /\ pc = "while"
    /\ RetryNeeded(loss)
    /\ \E unique \in {Unique(NormalizeAll(encodings))} :
       \E k \in {IF Len(unique) < n_clusters THEN Len(unique) ELSE n_clusters} :
          /\ n_clusters' = k
          /\ centers' \in {SeedFrom(unique, perm, 1, <<>>, k) :
                               perm \in Perms(Len(unique))}
    /\ iter_step' = 0
    /\ retried' = (retried \/ attempted)
    /\ pc' = "loop"
    /\ UNCHANGED <<err, encodings, len_q, num_clusters, n_init, max_iter, init,
                   loss, group_index, best_group_index, clusters, p_hist,
                   q_hist, attempted, ideal, best_loss, run, first>>
    /\ UNCHANGED notFit

\* what one pass of the loop body computes from the current centers
Pass ==
    With(NormalizeAll(encodings) \o <<>>, LAMBDA enc :
    With(GroupPoints(centers, enc, DefaultCapacity), LAMBDA g :
    With(UpdateCenters(g.group_index, enc, centers, n_clusters), LAMBDA u :
        [ok |-> g.ok /\ u.ok,
         why |-> IF ~g.ok THEN "zero_division" ELSE "shape",
         group_index |-> g.group_index,
         loss |-> g.loss,
         centers |-> u.centers,
         stop |-> StopIteration(Movement(centers, u.centers), g.loss)])))

\* one pass of for iter_step in range(self.max_iter) that does not break
LoopStep ==
    /\ pc = "loop"
    /\ iter_step < max_iter
    /\ \E r \in {Pass} :
          /\ r.ok
          /\ ~r.stop
          /\ group_index' = r.group_index
          /\ loss' = r.loss
          /\ centers' = r.centers
    /\ iter_step' = iter_step + 1
    /\ UNCHANGED <<pc, err, encodings, len_q, num_clusters, n_clusters, n_init,
                   max_iter, init, best_group_index, clusters, p_hist, q_hist,
                   attempted, retried, ideal, best_loss, run, first>>
    /\ UNCHANGED notFit

\* a pass that breaks; fit_once returns group_index, loss
LoopBreak ==
    /\ pc = "loop"
    /\ iter_step < max_iter
    /\ \E r \in {Pass} :
          /\ r.ok
          /\ r.stop
          /\ group_index' = r.group_index
          /\ loss' = r.loss
          /\ centers' = r.centers
    /\ attempted' = TRUE
    /\ pc' = "while"
    /\ UNCHANGED <<err, encodings, len_q, num_clusters, n_clusters, n_init,
                   max_iter, init, iter_step, best_group_index, clusters,
                   p_hist, q_hist, retried, ideal, best_loss, run, first>>
    /\ UNCHANGED notFit

\* a pass in which update_centers (or group_points) raises
LoopRaise ==
    /\ pc = "loop"
    /\ iter_step < max_iter
    /\ \E r \in {Pass} :
          /\ ~r.ok
          /\ err' = r.why
    /\ pc' = "error"
    /\ UNCHANGED <<encodings, len_q, num_clusters, n_clusters, n_init, max_iter,
                   init, loss, group_index, best_group_index, centers,
                   iter_step, clusters, p_hist, q_hist, attempted, retried,
                   ideal, best_loss, run, first>>
    /\ UNCHANGED notFit

\* range(self.max_iter) is exhausted; fit_once returns group_index, loss
LoopEnd ==
    /\ pc = "loop"
    /\ iter_step >= max_iter
    /\ attempted' = TRUE
    /\ pc' = "while"
    /\ UNCHANGED <<err, encodings, len_q, num_clusters, n_clusters, n_init,
                   max_iter, init, loss, group_index, best_group_index,
                   centers, iter_step, clusters, p_hist, q_hist, retried,
                   ideal, best_loss, run, first>>
    /\ UNCHANGED notFit

\* the while loop is left; if loss < min_loss: best_group_index =
\* group_index (min_loss is never assigned again: it stays 1e10)
Compare ==
    /\ pc = "while"
    /\ ~RetryNeeded(loss)
    /\ best_group_index' =
          IF Better(loss, MinLossInit) THEN group_index ELSE best_group_index
    /\ best_loss' = IF Better(loss, MinLossInit) THEN loss ELSE best_loss
    /\ ideal' = IF ideal = None \/ loss < ideal.loss
                THEN [loss |-> loss, group_index |-> group_index]
                ELSE ideal
    /\ init' = init + 1
    /\ pc' = "for"
    /\ UNCHANGED <<err, encodings, len_q, num_clusters, n_clusters, n_init,
                   max_iter, loss, group_index, centers, iter_step, clusters,
                   p_hist, q_hist, attempted, retried, run, first>>
    /\ UNCHANGED notFit

\* the for loop is over with best_group_index still None:
\* best_group_index.tolist() raises AttributeError
CollectRaise ==
    /\ pc = "for"
    /\ init >= n_init
    /\ best_group_index = None
    /\ pc' = "error"
    /\ err' = "none_best"
    /\ UNCHANGED <<encodings, len_q, num_clusters, n_clusters, n_init, max_iter,
                   init, loss, group_index, best_group_index, centers,
                   iter_step, clusters, p_hist, q_hist, attempted, retried,
                   ideal, best_loss, run, first>>
    /\ UNCHANGED notFit

\* the rows of cluster k, in row order
Members(g, k) ==
    LET F[i \in 0..Len(g)] ==
            IF i = 0 THEN <<>>
            ELSE IF g[i] = k THEN Append(F[i - 1], i - 1) ELSE F[i - 1]
    IN  F[Len(g)]

\* clusters = [[] for _ in range(self.n_clusters)]; clusters[index].append(i)
Collect ==
    /\ pc = "for"
    /\ init >= n_init
    /\ best_group_index # None
    /\ clusters' = [k \in 1..n_clusters |-> Members(best_group_index, k - 1)]
    /\ pc' = "fitted"
    /\ UNCHANGED <<err, encodings, len_q, num_clusters, n_clusters, n_init,
                   max_iter, init, loss, group_index, best_group_index,
                   centers, iter_step, p_hist, q_hist, attempted, retried,
                   ideal, best_loss, run, first>>
    /\ UNCHANGED notFit

\* ---------------------------------------------- cluster_feats, the tail
\* labels[index] = i for index in cluster i
Labels(cl, n) ==
    [i \in 1..n |-> (CHOOSE k \in 1..Len(cl) : (i - 1) \in Range(cl[k])) - 1]

\* np.histogram(labels, bins=b, range=[0, b], density=True)[0] followed by
\* bins / bins.sum(): bin j counts the labels l with j <= l < j + 1 (the
\* last bin takes l = b too); labels outside [0, b] are dropped.  The
\* histogram is held as the bin counts and their sum, its entries being
\* counts[j] / total (NaN when total = 0).
Histogram(labels, b) ==
    LET cnt == [j \in 1..b |->
                  Cardinality({i \in 1..Len(labels) :
                      \/ labels[i] = j - 1
                      \/ (j = b /\ labels[i] = b)})]
    IN  [counts |-> cnt, total |-> SumSeq(cnt)]

\* q_labels = labels[: len(q)], p_labels = labels[len(q) :], and the two
\* histograms over num_clusters bins
Histograms ==
    /\ pc = "fitted"
    /\ \E labels \in {Labels(clusters, Len(encodings)) \o <<>>} :
       \E lq \in (IF len_q = 0 THEN 1..(Len(labels) - 1) ELSE {len_q}) :
          /\ len_q' = lq
          /\ q_hist' = Histogram(SubSeq(labels, 1, lq), num_clusters)
          /\ p_hist' = Histogram(SubSeq(labels, lq + 1, Len(labels)),
                                  num_clusters)
    /\ pc' = "done"
    /\ UNCHANGED <<err, encodings, num_clusters, n_clusters, n_init,
                   max_iter, init, loss, group_index, best_group_index,
                   centers, iter_step, clusters, attempted, retried, ideal, best_loss, run, first>>
    /\ UNCHANGED notFit

\* ------------------------------------- the specifications of KMeans.fit
IdleFit ==
    /\ pc = "idle"
    /\ err = "none"
    /\ encodings = <<>>
    /\ len_q = 0
    /\ num_clusters = 0
    /\ n_clusters = 0
    /\ n_init = 0
    /\ max_iter = 0
    /\ init = 0
    /\ loss = NaN
    /\ group_index = None
    /\ best_group_index = None
    /\ centers = <<>>
    /\ iter_step = 0
    /\ clusters = <<>>
    /\ p_hist = NoHist
    /\ q_hist = NoHist
    /\ attempted = FALSE
    /\ retried = FALSE
    /\ ideal = None
    /\ best_loss = NaN
    /\ run = 1
    /\ first = NoResult

IdleMauve ==
    /\ m_pc = "idle"
    /\ m_err = "none"
    /\ p_src = "none"
    /\ q_src = "none"
    /\ found_torch = FALSE
    /\ n_p = 0
    /\ n_q = 0
    /\ num_buckets = [kind |-> "int", value |-> 0]
    /\ pca_max_data = 0
    /\ explained_var = 0
    /\ work = <<>>
    /\ pca_rows = <<>>
    /\ m_bins = 0

IdleGroup ==
    /\ gp_pc = "idle"
    /\ gp_enc = <<>>
    /\ gp_centers = <<>>
    /\ gp_capacity = 0
    /\ gp_out = [ok |-> FALSE, group_index |-> <<>>, loss |-> 0]

IdleScore ==
    /\ s_pc = "idle"
    /\ s_p = NoHist
    /\ s_q = NoHist
    /\ s_m = 0
    /\ s_c = 0
    /\ s_curve = <<>>
    /\ s_mauve = 0
    /\ s_fi = 0

InitFit == StartFit /\ IdleMauve /\ IdleGroup /\ IdleScore

NextFit ==
    \/ FitRaise
    \/ FitSingle
    \/ FitBegin
    \/ ForNext
    \/ FitOnceSeed
    \/ LoopStep
    \/ LoopBreak
    \/ LoopRaise
    \/ LoopEnd
    \/ Compare
    \/ CollectRaise
    \/ Collect
    \/ Histograms

\* cluster_feats on a reduced matrix: KMeans.fit, then the histograms
SpecFit == InitFit /\ [][NextFit]_vars

\* the same; the interpreter runs the next statement as long as there is one
SpecFitLive == InitFit /\ [][NextFit]_vars /\ WF_vars(NextFit)

\* the pipeline is called a second time with the same inputs, configuration
\* and seed: cluster_feats builds a new KMeans(n_clusters=num_clusters, ...)
\* on the same reduced matrix
Rerun ==
    /\ pc = "done"
    /\ run = 1
    /\ first' = [clusters |-> clusters, p_hist |-> p_hist, q_hist |-> q_hist]
    /\ run' = 2
    /\ pc' = "fit"
    /\ n_clusters' = num_clusters
    /\ init' = 0
    /\ loss' = NaN
    /\ group_index' = None
    /\ best_group_index' = None
    /\ centers' = <<>>
    /\ iter_step' = 0
    /\ clusters' = <<>>
    /\ p_hist' = NoHist
    /\ q_hist' = NoHist
    /\ attempted' = FALSE
    /\ ideal' = None
    /\ best_loss' = NaN
    /\ UNCHANGED <<err, encodings, len_q, num_clusters, n_init, max_iter,
                   retried>>
    /\ UNCHANGED notFit

NextRepeat == NextFit \/ Rerun

SpecRepeat == InitFit /\ [][NextRepeat]_vars

\* ------------------------------------------------- claims on KMeans.fit
Returned == pc \in {"fitted", "done"}

CallOfFit == num_clusters >= 2 /\ n_init >= 1

\* C1: when fit returns (n_clusters >= 2, n_init >= 1), the assignment it
\* returns is that of the restart with the lowest final loss, the first such
\* restart when several share the lowest loss.
C1_BestOfRestarts ==
    (Returned /\ CallOfFit) => best_group_index = ideal.group_index

\* C2: a restart attempt whose loss is not finite is discarded and run
\* again: the loss a restart is accepted with is finite, the loss that came
\* with the returned assignment is finite, and the iteration loop of
\* fit_once goes on to another pass only with a finite loss.
C2_NonFiniteRetried ==
    /\ (pc = "for" /\ init > 0) => IsFinite(loss)
    /\ (best_group_index # None) => IsFinite(best_loss)
    /\ (pc = "loop" /\ iter_step > 0) => IsFinite(loss)

\* C2 happens: an attempt came back with a NaN loss and was run again
C2_Witness == retried /\ pc = "loop" /\ IsNaN(loss)

DistinctPoints == Len(Unique(NormalizeAll(encodings)))

SumsToOne(h) == h.total > 0 /\ SumSeq(h.counts) = h.total

\* C3: with fewer distinct normalized points than requested clusters
\* (num_clusters >= 2), clustering raises nothing, the cluster count becomes
\* the number of distinct points, the seeding yields that many centers,
\* every label is below that count and both histograms sum to 1.
C3_FewDistinctPoints ==
    (CallOfFit /\ DistinctPoints < num_clusters) =>
        /\ pc # "error"
        /\ (pc = "loop" /\ iter_step = 0) =>
              /\ n_clusters = DistinctPoints
              /\ Len(centers) = DistinctPoints
        /\ \A i \in 1..Len(group_index) : group_index[i] < DistinctPoints
        /\ (pc = "done") => (SumsToOne(p_hist) /\ SumsToOne(q_hist))

\* C4: two runs with identical inputs, configuration and seed give the same
\* cluster assignment and the same p_hist and q_hist (and so the same
\* scores, which are computed from the two histograms).
C4_SameSeedSameResult ==
    (run = 2 /\ pc = "done") =>
        /\ clusters = first.clusters
        /\ p_hist = first.p_hist
        /\ q_hist = first.q_hist

\* C10: every call of fit with n_clusters >= 2 and n_init >= 1 comes to an
\* end (here: by returning or by raising).
C10_FitEnds == <>(CallOfFit => pc \in {"fitted", "done", "error"})


\* --------------------------------------- compute_mauve and cluster_feats
Max2(a, b) == IF a > b THEN a ELSE b

\* Python's round(n / d) for n >= 0: to the nearest integer, a tie to the
\* even one
RoundHalfEven(n, d) ==
    LET q == n \div d
        r == n % d
    IN  IF 2 * r < d THEN q
        ELSE IF 2 * r > d THEN q + 1
        ELSE IF q % 2 = 0 THEN q ELSE q + 1

\* the same with the quotient truncated instead of rounded
AutoBucketsFloor(np, nq) == Max2(2, Min2(np, nq) \div 10)

\* max(2, int(round(min(p_features.shape[0], q_features.shape[0]) / 10)))
AutoBuckets(np, nq) == Max2(2, RoundHalfEven(Min2(np, nq), 10))

\* the branches with pca_max_data = 0 read as "all rows"
PcaModeNonPositive(m, n) ==
    IF m <= 0 \/ m >= n THEN "all"
    ELSE "sample"

\* the branch cluster_feats takes on pca_max_data = m with n pooled rows
PcaMode(m, n) ==
    IF m < 0 \/ m >= n THEN "all"
    ELSE IF 0 < m /\ m < n THEN "sample"
    ELSE "raise"

\* rng.choice(n, size=m, replace=False): m distinct rows, in any order
Samples(n, m) ==
    {f \in [1..m -> 1..n] : \A i, j \in 1..m : f[i] = f[j] => i = j}

AllRows(n) == [i \in 1..n |-> i]

Sources == {"features", "text", "none"}

BucketArgs ==
    {[kind |-> "auto", value |-> 0], [kind |-> "other", value |-> 0]}
        \cup {[kind |-> "int", value |-> v] : v \in 0..MaxClusters}

\* kmeans_explained_var in tenths: 0.0, 0.9 (the default), 1.0
ExplainedVars == {0, 9, 10}

StartMauve ==
    /\ m_pc = "start"
    /\ m_err = "none"
    /\ p_src \in Sources
    /\ q_src \in Sources
    /\ found_torch \in BOOLEAN
    /\ n_p \in 1..MaxRows
    /\ n_q \in 1..MaxRows
    /\ num_buckets \in BucketArgs
    /\ pca_max_data \in -1..(2 * MaxRows + 1)
    /\ explained_var \in ExplainedVars
    /\ work = <<>>
    /\ pca_rows = <<>>
    /\ m_bins = 0

notMauve == <<fitVars, groupVars, scoreVars>>

\* raise ValueError("Supply at least one of ...")
MissingInput ==
    /\ m_pc = "start"
    /\ (p_src = "none" \/ q_src = "none")
    /\ m_pc' = "raised"
    /\ m_err' = "missing_input"
    /\ UNCHANGED <<p_src, q_src, found_torch, n_p, n_q, num_buckets,
                   pca_max_data, explained_var, work, pca_rows, m_bins>>
    /\ UNCHANGED notMauve

InputsGiven ==
    /\ m_pc = "start"
    /\ p_src # "none"
    /\ q_src # "none"
    /\ m_pc' = "features_p"
    /\ UNCHANGED <<m_err, p_src, q_src, found_torch, n_p, n_q, num_buckets,
                   pca_max_data, explained_var, work, pca_rows, m_bins>>
    /\ UNCHANGED notMauve

\* the source get_features_from_input is called with at this position
SourceAt(at) == IF at = "features_p" THEN p_src ELSE q_src

AfterFeatures(at) == IF at = "features_p" THEN "features_q" ELSE "buckets"

\* get_features_from_input with features given: np.asarray(features)
UseFeatures ==
    /\ m_pc \in {"features_p", "features_q"}
    /\ SourceAt(m_pc) = "features"
    /\ m_pc' = AfterFeatures(m_pc)
    /\ UNCHANGED <<m_err, p_src, q_src, found_torch, n_p, n_q, num_buckets,
                   pca_max_data, explained_var, work, pca_rows, m_bins>>
    /\ UNCHANGED notMauve

\* get_features_from_input without features and without torch /
\* transformers: raise ModuleNotFoundError
FeaturizeRaise ==
    /\ m_pc \in {"features_p", "features_q"}
    /\ SourceAt(m_pc) = "text"
    /\ ~found_torch
    /\ m_pc' = "raised"
    /\ m_err' = "missing_module"
    /\ UNCHANGED <<p_src, q_src, found_torch, n_p, n_q, num_buckets,
                   pca_max_data, explained_var, work, pca_rows, m_bins>>
    /\ UNCHANGED notMauve

\* get_features_from_input without features: tokenize, load the model,
\* featurize_tokens_from_model
Featurize ==
    /\ m_pc \in {"features_p", "features_q"}
    /\ SourceAt(m_pc) = "text"
    /\ found_torch
    /\ work' = Append(work, "featurize")
    /\ m_pc' = AfterFeatures(m_pc)
    /\ UNCHANGED <<m_err, p_src, q_src, found_torch, n_p, n_q, num_buckets,
                   pca_max_data, explained_var, pca_rows, m_bins>>
    /\ UNCHANGED notMauve

\* if num_buckets == "auto": num_buckets = max(2, int(round(min(...) / 10)))
ResolveAuto ==
    /\ m_pc = "buckets"
    /\ num_buckets.kind = "auto"
    /\ num_buckets' = [num_buckets EXCEPT !.value = AutoBuckets(n_p, n_q)]
    /\ m_pc' = "cluster_feats"
    /\ UNCHANGED <<m_err, p_src, q_src, found_torch, n_p, n_q, pca_max_data,
                   explained_var, work, pca_rows, m_bins>>
    /\ UNCHANGED notMauve

\* elif not isinstance(num_buckets, int): raise ValueError
BucketsRaise ==
    /\ m_pc = "buckets"
    /\ num_buckets.kind = "other"
    /\ m_pc' = "raised"
    /\ m_err' = "num_buckets"
    /\ UNCHANGED <<p_src, q_src, found_torch, n_p, n_q, num_buckets,
                   pca_max_data, explained_var, work, pca_rows, m_bins>>
    /\ UNCHANGED notMauve

BucketsGiven ==
    /\ m_pc = "buckets"
    /\ num_buckets.kind = "int"
    /\ m_pc' = "cluster_feats"
    /\ UNCHANGED <<m_err, p_src, q_src, found_torch, n_p, n_q, num_buckets,
                   pca_max_data, explained_var, work, pca_rows, m_bins>>
    /\ UNCHANGED notMauve

\* cluster_feats: assert 0 < explained_variance < 1 fails
AssertRaise ==
    /\ m_pc = "cluster_feats"
    /\ ~(0 < explained_var /\ explained_var < 10)
    /\ m_pc' = "raised"
    /\ m_err' = "explained_variance"
    /\ UNCHANGED <<p_src, q_src, found_torch, n_p, n_q, num_buckets,
                   pca_max_data, explained_var, work, pca_rows, m_bins>>
    /\ UNCHANGED notMauve

\* the assertions hold; data1 = normalize(np.vstack([q, p])); PCA(...)
AssertPass ==
    /\ m_pc = "cluster_feats"
    /\ 0 < explained_var
    /\ explained_var < 10
    /\ m_pc' = "pca"
    /\ UNCHANGED <<m_err, p_src, q_src, found_torch, n_p, n_q, num_buckets,
                   pca_max_data, explained_var, work, pca_rows, m_bins>>
    /\ UNCHANGED notMauve

\* pca.fit(data1)
PcaFitAll ==
    /\ m_pc = "pca"
    /\ PcaMode(pca_max_data, n_p + n_q) = "all"
    /\ pca_rows' = AllRows(n_p + n_q)
    /\ work' = Append(work, "pca_fit")
    /\ m_pc' = "transform"
    /\ UNCHANGED <<m_err, p_src, q_src, found_torch, n_p, n_q, num_buckets,
                   pca_max_data, explained_var, m_bins>>
    /\ UNCHANGED notMauve

\* idxs = rng.choice(...); pca.fit(data1[idxs])
PcaFitSample ==
    /\ m_pc = "pca"
    /\ PcaMode(pca_max_data, n_p + n_q) = "sample"
    /\ pca_rows' \in Samples(n_p + n_q, pca_max_data)
    /\ work' = Append(work, "pca_fit")
    /\ m_pc' = "transform"
    /\ UNCHANGED <<m_err, p_src, q_src, found_torch, n_p, n_q, num_buckets,
                   pca_max_data, explained_var, m_bins>>
    /\ UNCHANGED notMauve

\* raise ValueError(f"Invalid argument pca_max_data=...")
PcaRaise ==
    /\ m_pc = "pca"
    /\ PcaMode(pca_max_data, n_p + n_q) = "raise"
    /\ m_pc' = "raised"
    /\ m_err' = "pca_max_data"
    /\ UNCHANGED <<p_src, q_src, found_torch, n_p, n_q, num_buckets,
                   pca_max_data, explained_var, work, pca_rows, m_bins>>
    /\ UNCHANGED notMauve

\* data1 = pca.transform(data1)[:, : idx + 1]
Transform ==
    /\ m_pc = "transform"
    /\ work' = Append(work, "pca_transform")
    /\ m_pc' = "kmeans"
    /\ UNCHANGED <<m_err, p_src, q_src, found_torch, n_p, n_q, num_buckets,
                   pca_max_data, explained_var, pca_rows, m_bins>>
    /\ UNCHANGED notMauve

\* kmeans.fit(...) raises: the number of clusters should be >= 1
KMeansRaise ==
    /\ m_pc = "kmeans"
    /\ num_buckets.value < 1
    /\ m_pc' = "raised"
    /\ m_err' = "n_clusters"
    /\ UNCHANGED <<p_src, q_src, found_torch, n_p, n_q, num_buckets,
                   pca_max_data, explained_var, work, pca_rows, m_bins>>
    /\ UNCHANGED notMauve

\* kmeans.fit(...) clusters the rows (SpecFit follows it step by step)
KMeansFit ==
    /\ m_pc = "kmeans"
    /\ num_buckets.value >= 1
    /\ work' = Append(work, "kmeans")
    /\ m_pc' = "histograms"
    /\ UNCHANGED <<m_err, p_src, q_src, found_torch, n_p, n_q, num_buckets,
                   pca_max_data, explained_var, pca_rows, m_bins>>
    /\ UNCHANGED notMauve

\* the histograms over num_clusters bins, the scores, and the result with
\* num_buckets; the length of p_hist does not depend on the labels
Finish ==
    /\ m_pc = "histograms"
    /\ m_bins' = Len(Histogram([i \in 1..n_p |-> 0], num_buckets.value).counts)
    /\ m_pc' = "returned"
    /\ UNCHANGED <<m_err, p_src, q_src, found_torch, n_p, n_q, num_buckets,
                   pca_max_data, explained_var, work, pca_rows>>
    /\ UNCHANGED notMauve

InitMauve == StartMauve /\ IdleFit /\ IdleGroup /\ IdleScore

NextMauve ==
    \/ MissingInput
    \/ InputsGiven
    \/ UseFeatures
    \/ FeaturizeRaise
    \/ Featurize
    \/ ResolveAuto
    \/ BucketsRaise
    \/ BucketsGiven
    \/ AssertRaise
    \/ AssertPass
    \/ PcaFitAll
    \/ PcaFitSample
    \/ PcaRaise
    \/ Transform
    \/ KMeansRaise
    \/ KMeansFit
    \/ Finish

\* compute_mauve over every configuration
SpecMauve == InitMauve /\ [][NextMauve]_vars

\* compute_mauve on feature matrices of up to MaxAutoRows rows, and of 1000
\* rows, with num_buckets="auto" and the other options at their defaults
StartBuckets ==
    /\ m_pc = "start"
    /\ m_err = "none"
    /\ p_src = "features"
    /\ q_src = "features"
    /\ found_torch \in BOOLEAN
    /\ n_p \in (1..MaxAutoRows) \cup {1000}
    /\ n_q \in (1..MaxAutoRows) \cup {1000}
    /\ num_buckets = [kind |-> "auto", value |-> 0]
    /\ pca_max_data = -1
    /\ explained_var = 9
    /\ work = <<>>
    /\ pca_rows = <<>>
    /\ m_bins = 0

InitBuckets == StartBuckets /\ IdleFit /\ IdleGroup /\ IdleScore

NextBuckets ==
    \/ InputsGiven
    \/ UseFeatures
    \/ ResolveAuto
    \/ AssertPass
    \/ PcaFitAll
    \/ Transform
    \/ KMeansFit
    \/ Finish

SpecBuckets == InitBuckets /\ [][NextBuckets]_vars

\* ---------------------------------------------- claims on compute_mauve
ConfigErrors == {"explained_variance", "num_buckets", "n_clusters", "pca_max_data"}

\* C5: a configuration error is raised before any computation step:
\* no featurization, PCA fit, PCA transform or clustering came before it.
C5_ConfigErrorsFirst ==
    (m_pc = "raised" /\ m_err \in ConfigErrors) => work = <<>>

\* the pca_max_data branch of cluster_feats has been taken
PcaDecided ==
    \/ m_pc \in {"transform", "kmeans", "histograms", "returned"}
    \/ (m_pc = "raised" /\ m_err \in {"pca_max_data", "n_clusters"})

IsSample(rows, m, n) ==
    /\ Len(rows) = m
    /\ \A i \in 1..m : rows[i] \in 1..n
    /\ \A i, j \in 1..m : rows[i] = rows[j] => i = j

PcaRaised == m_pc = "raised" /\ m_err = "pca_max_data" /\ pca_rows = <<>>

C8_AutoBuckets ==
    (num_buckets.kind = "auto" /\ m_pc \notin {"start", "features_p", "features_q", "buckets"}) =>
        LET n == Min2(n_p, n_q)
            b == num_buckets.value
        IN  /\ \E k \in 0..n : 2 * Abs(10 * k - n) <= 10 /\ b = Max2(2, k)
            /\ (n_p = 1000 /\ n_q = 1000) => b = 100
            /\ (m_pc = "returned") => m_bins = b

\* C8 happens: 1000 and 1000 rows were resolved and the result returned
C8_Witness ==
    /\ m_pc = "returned"
    /\ n_p = 1000
    /\ n_q = 1000
    /\ num_buckets = [kind |-> "auto", value |-> 100]
    /\ m_bins = 100


\* ------------------------------------------------- KMeans.group_points
notGroup == <<fitVars, mauveVars, scoreVars>>

\* a call of group_points on normalized rows and centers with a capacity
StartGroup ==
    /\ gp_pc = "call"
    /\ \E n \in 1..MaxPoints : gp_enc \in SeqsOf({-Unit, Unit - 1, Unit}, n)
    /\ \E k \in 1..(MaxClusters - 1) : gp_centers \in SeqsOf({-Unit, Unit}, k)
    /\ gp_capacity \in 1..MaxCapacity
    /\ gp_out = [ok |-> FALSE, group_index |-> <<>>, loss |-> 0]

\* split_len = 0: encodings.shape[0] / split_len raises ZeroDivisionError
GroupRaise ==
    /\ gp_pc = "call"
    /\ \E r \in {GroupPoints(gp_centers, gp_enc, gp_capacity)} :
          /\ ~r.ok
          /\ gp_out' = r
    /\ gp_pc' = "raised"
    /\ UNCHANGED <<gp_enc, gp_centers, gp_capacity>>
    /\ UNCHANGED notGroup

\* return group_index, loss
GroupReturn ==
    /\ gp_pc = "call"
    /\ \E r \in {GroupPoints(gp_centers, gp_enc, gp_capacity)} :
          /\ r.ok
          /\ gp_out' = r
    /\ gp_pc' = "returned"
    /\ UNCHANGED <<gp_enc, gp_centers, gp_capacity>>
    /\ UNCHANGED notGroup

InitGroup == StartGroup /\ IdleFit /\ IdleMauve /\ IdleScore

NextGroup ==
    \/ GroupRaise
    \/ GroupReturn

SpecGroup == InitGroup /\ [][NextGroup]_vars

\* one pass over all the rows at once
Unchunked(cs, enc) == GroupChunks(cs, enc, Len(enc), 1, 0, <<>>, 0)

\* C9: for every point count, center count and capacity, N*K > capacity
\* included, group_points does not fail on its chunk size, and what it
\* returns is the assignment (of length N) and the loss of a single
\* unchunked pass.
C9_ChunkedAsUnchunked ==
    /\ gp_pc # "raised"
    /\ (gp_pc = "returned") =>
          /\ Len(gp_out.group_index) = Len(gp_enc)
          /\ gp_out = Unchunked(gp_centers, gp_enc)

\* ------------------------------------------------------------- the scores
WUnit == 1000000    \* a mixture weight of 1.0, in units of 1e-6

\* np.linspace(1e-6, 1 - 1e-6, m), in units of 1e-6
Weights(m) ==
    IF m = 1 THEN <<1>>
    ELSE [i \in 1..m |-> 1 + ((i - 1) * (WUnit - 2)) \div (m - 1)]

\* r = w * p + (1 - w) * q for two histograms over the same number of rows:
\* entry i of r is mix[i] / (WUnit * total)
Mixture(w, p, q) ==
    [i \in 1..Len(p.counts) |-> w * p.counts[i] + (WUnit - w) * q.counts[i]]

\* kl_multinomial(p, r) with r a mixture: inf when p has mass where r has
\* none, and 0 when r equals p wherever p has mass.  Any other value needs
\* a logarithm; the histograms of this model have none.
KlMultinomial(p, mix) ==
    CASE \E i \in 1..Len(mix) : p.counts[i] # 0 /\ mix[i] = 0 -> PosInf
      [] \A i \in 1..Len(mix) :
            p.counts[i] # 0 => mix[i] = WUnit * p.counts[i] -> 0

\* np.exp(-scaling_factor * d) for d = 0 and d = inf, scaling_factor > 0
ExpNeg(c, d) ==
    CASE d = 0 -> Unit
      [] d = PosInf -> 0

\* get_divergence_curve_for_multinomials: the points [x, y] from
\* [0, inf], one point per sorted weight, [inf, 0]
DivergenceCurve(p, q, weights, c) ==
    LET ws == SortSet(Range(weights))
        mid == [i \in 1..Len(ws) |->
                   <<KlMultinomial(q, Mixture(ws[i], p, q)),
                     KlMultinomial(p, Mixture(ws[i], p, q))>>]
        pts == <<<<0, PosInf>>>> \o mid \o <<<<PosInf, 0>>>>
    IN  [i \in 1..Len(pts) |-> <<ExpNeg(c, pts[i][1]), ExpNeg(c, pts[i][2])>>]

\* np.argsort(v): an order of the indices in which v ascends; the order of
\* equal entries is left to the sort
ArgSorts(v) ==
    {f \in Perms(Len(v)) : \A i \in 1..(Len(v) - 1) : v[f[i]] <= v[f[i + 1]]}

\* compute_area_under_curve(x, y) = sklearn.metrics.auc for x ascending:
\* the trapezoidal rule
Auc(x, y) ==
    SumSeq([i \in 1..(Len(x) - 1) |->
               Mul(x[i + 1] - x[i], y[i + 1] + y[i]) \div 2])

\* the areas auc(x[idxs], y[idxs]) over the orders argsort may return
Areas(x, y) ==
    {Auc([i \in 1..Len(x) |-> x[f[i]]], [i \in 1..Len(x) |-> y[f[i]]]) :
        f \in ArgSorts(x)}

\* the contribution of one bin to get_fronter_integral, entries p1 =
\* cp / total and q1 = cq / total; the branch of abs(p1 - q1) > 1e-8 needs
\* a logarithm and is left out with the histograms that reach it
FrontierTerm(cp, cq, total) ==
    CASE cp = 0 /\ cq = 0 -> 0
      [] cp = 0 /\ cq # 0 -> (Unit * cq) \div (4 * total)
      [] cp # 0 /\ cq = 0 -> (Unit * cp) \div (4 * total)
      [] cp # 0 /\ cp = cq -> 0

\* get_fronter_integral(p, q) with scaling_factor = 2
FrontierIntegral(p, q) ==
    2 * SumSeq([i \in 1..Len(p.counts) |->
                   FrontierTerm(p.counts[i], q.counts[i], p.total)])

Hists ==
    {[counts |-> cnt, total |-> SumSeq(cnt)] :
        cnt \in {c \in UNION {SeqsOf(0..MaxCount, b) : b \in 1..MaxBins} :
                    SumSeq(c) > 0}}

notScore == <<fitVars, mauveVars, groupVars>>

\* the tail of compute_mauve on two equal histograms
StartScore ==
    /\ s_pc = "curve"
    /\ s_p \in Hists
    /\ s_q = s_p
    /\ s_m \in 1..MaxDisc
    /\ s_c \in {1, 5}
    /\ s_curve = <<>>
    /\ s_mauve = 0
    /\ s_fi = 0

\* mixture_weights = np.linspace(...); divergence_curve = ...
Curve ==
    /\ s_pc = "curve"
    /\ s_curve' = DivergenceCurve(s_p, s_q, Weights(s_m), s_c) \o <<>>
    /\ s_pc' = "areas"
    /\ UNCHANGED <<s_p, s_q, s_m, s_c, s_mauve, s_fi>>
    /\ UNCHANGED notScore

\* x, y = divergence_curve.T; the two argsorts; mauve_score
Aggregate ==
    /\ s_pc = "areas"
    /\ \E x \in {[i \in 1..Len(s_curve) |-> s_curve[i][1]] \o <<>>} :
       \E y \in {[i \in 1..Len(s_curve) |-> s_curve[i][2]] \o <<>>} :
       \E a1 \in Areas(x, y) :
       \E a2 \in Areas(y, x) :
          s_mauve' = (a1 + a2) \div 2
    /\ s_pc' = "frontier"
    /\ UNCHANGED <<s_p, s_q, s_m, s_c, s_curve, s_fi>>
    /\ UNCHANGED notScore

\* fi_score = get_fronter_integral(p, q); return to_return
Frontier ==
    /\ s_pc = "frontier"
    /\ s_fi' = FrontierIntegral(s_p, s_q)
    /\ s_pc' = "returned"
    /\ UNCHANGED <<s_p, s_q, s_m, s_c, s_curve, s_mauve>>
    /\ UNCHANGED notScore

InitScore == StartScore /\ IdleFit /\ IdleMauve /\ IdleGroup

NextScore ==
    \/ Curve
    \/ Aggregate
    \/ Frontier

SpecScore == InitScore /\ [][NextScore]_vars

\* C7: with p_hist = q_hist, whatever the length, the discretization size
\* and the scaling factor, and whatever order the sorts give to equal
\* coordinates, mauve is 1.0 and frontier_integral is 0.0.
C7_EqualHistograms ==
    (s_pc = "returned" /\ s_p = s_q) => (s_mauve = Unit /\ s_fi = 0)


====
